---- MODULE Spec2Model ----
(***************************************************************************)
(* paqt: the scanner (scanFolder / scanDirectory, metadata.csv ledger) and *)
(* the timestamp restorer (restoreTimestamps / setFileTimestamps).         *)
(*                                                                         *)
(* Strings are tuples of one-character strings, so that the name test of   *)
(* isSymlink, the "/"-joined relative paths and the collation used by the  *)
(* ledger sort are computed, not assumed.  Instants are integers counting  *)
(* milliseconds.                                                           *)
(***************************************************************************)
EXTENDS Integers, Sequences, FiniteSets, TLC

\* scanFolder passes maxDepth = 50 (cli.ts:691); the walk is modelled with a
\* smaller limit and a directory chain two levels deeper than the limit.
maxDepth == 2

\* How many times the environment may change the tree between operations.
MaxEnvSteps == 2

-----------------------------------------------------------------------------
(* Characters and strings *)

\* UTF-8 / UTF-16 code unit of the characters that occur in the modelled names.
CodePoint(ch) ==
  CASE ch = "." -> 46 [] ch = "/" -> 47 [] ch = "B" -> 66
    [] ch = "a" -> 97 [] ch = "b" -> 98 [] ch = "c" -> 99 [] ch = "d" -> 100
    [] ch = "e" -> 101 [] ch = "f" -> 102 [] ch = "k" -> 107 [] ch = "l" -> 108
    [] ch = "m" -> 109 [] ch = "n" -> 110 [] ch = "s" -> 115 [] ch = "t" -> 116
    [] ch = "v" -> 118

IsUpper(ch) == ch = "B"

ToLower(ch) == IF ch = "B" THEN "b" ELSE ch

\* -1, 0 or 1: lexicographic comparison of two sequences of integers.
RECURSIVE LexCompare(_, _)
LexCompare(x, y) ==
  IF x = <<>> THEN (IF y = <<>> THEN 0 ELSE -1)
  ELSE IF y = <<>> THEN 1
  ELSE IF Head(x) < Head(y) THEN -1
  ELSE IF Head(x) > Head(y) THEN 1
  ELSE LexCompare(Tail(x), Tail(y))

\* String.prototype.localeCompare with the default (root) collation, on the
\* modelled alphabet: letters compare by alphabet position whatever their
\* case, punctuation sorts before letters; only when two strings are equal
\* at that level does case decide, lower case first.
localeCompare(a, b) ==
  LET primary(s) == [i \in 1..Len(s) |-> CodePoint(ToLower(s[i]))]
      tertiary(s) == [i \in 1..Len(s) |-> IF IsUpper(s[i]) THEN 1 ELSE 0]
      p == LexCompare(primary(a), primary(b))
  IN IF p # 0 THEN p ELSE LexCompare(tertiary(a), tertiary(b))

\* utils.ts isSymlink: filename.match(/\.l.*nk$/i) !== null, on the last
\* "/"-separated component (a directory entry's name holds no "/").
isSymlink(name) ==
  \E i \in 1..Len(name) :
    /\ name[i] = "."
    /\ i + 3 <= Len(name)
    /\ ToLower(name[i + 1]) = "l"
    /\ ToLower(name[Len(name) - 1]) = "n"
    /\ ToLower(name[Len(name)]) = "k"

\* Date.prototype.toISOString: the instant written out as calendar fields down
\* to the millisecond, in UTC.  The fields kept are the whole seconds and the
\* milliseconds within the second.
toISOString(t) == [secs |-> t \div 1000, millis |-> t % 1000]

\* new Date(isoString): the instant the fields denote.
fromISOString(s) == s.secs * 1000 + s.millis

\* setFileTimestamps' argument to touch -t, YYYYMMDDHHMM.SS: the local
\* calendar fields down to the second (whole minutes, second of the minute).
touchFormat(t) == [minutes |-> t \div 60000, second |-> (t \div 1000) % 60]

\* The instant touch -t sets from that argument.
touchInstant(f) == (f.minutes * 60 + f.second) * 1000

-----------------------------------------------------------------------------
(* Names and paths.  A path is the sequence of entry names below the scan  *)
(* root; the root is <<>>.                                                 *)

nA == <<"a">>
nB == <<"B">>
nD == <<"d">>
nE == <<"e">>
nF == <<"f">>
nL == <<"l">>
nLnk == <<"a", ".", "l", "n", "k">>
nDotLnk == <<".", "l", "n", "k">>
nUp == <<".", ".">>
nS == <<"s">>
nW == <<"w">>
nWs == <<"w", "s">>
nMeta == <<"m", "e", "t", "a", "d", "a", "t", "a", ".", "c", "s", "v">>

Root == <<>>

\* d/d/.../d, k levels below the root.
Chain(k) == [i \in 1..k |-> nD]

ChainLen == maxDepth + 2

DirPaths == {Chain(k) : k \in 0..ChainLen} \cup {<<nE>>}

\* Regular files the tree may hold.
FilePaths ==
  { <<nA>>, <<nB>>, <<nD, nA>>, Append(Chain(maxDepth + 1), nA),
    <<nE, nA>>, <<nE, nLnk>>, <<nE, nDotLnk>> }

\* Symbolic links, with what each points to: one to the root directory (an
\* ancestor of the link), one to a regular file.
SymlinkPaths == { <<nL>>, <<nD, nL>> }

target(p) == IF p = <<nL>> THEN Root ELSE <<nA>>

\* A FIFO: an entry that is neither file, directory nor symbolic link.
OtherPaths == { <<nE, nF>> }

Universe == DirPaths \cup FilePaths \cup SymlinkPaths \cup OtherPaths

\* Files that are not in the folder but beside it, in the folder's parent
\* directory: the paths ../s and ../ws from the folder, which is /w.
OutsideFiles == { <<nUp, nS>>, <<nUp, nWs>> }

\* Directories the folder holds when the clean command runs on it: cache,
\* .cache, .git, src and e/tmp.
CleanDirs ==
  { << <<"c", "a", "c", "h", "e">> >>, << <<".", "c", "a", "c", "h", "e">> >>,
    << <<".", "g", "i", "t">> >>, << <<"s", "r", "c">> >>,
    << nE, <<"t", "m", "p">> >> }

\* Every path whose type is kept.
Tracked == Universe \cup OutsideFiles \cup CleanDirs

\* The files whose modification time is kept.
TimedFiles == FilePaths \cup OutsideFiles

\* Files the environment creates, rewrites and removes.
MutableFiles == { <<nA>>, <<nD, nA>> }

Times == {1000, 61123}

RealIds == 0..(ChainLen + 1)

\* path.join(dirPath, item.name)
join(dirPath, name) == Append(dirPath, name)

\* path.relative(basePath, fullPath): the names joined by "/".
RECURSIVE relative(_)
relative(p) ==
  IF p = <<>> THEN <<>>
  ELSE IF Len(p) = 1 THEN p[1]
  ELSE p[1] \o <<"/">> \o relative(Tail(p))

Last(s) == s[Len(s)]

Range(s) == {s[i] : i \in 1..Len(s)}

-----------------------------------------------------------------------------
VARIABLES
  kind,         \* Tracked -> "none" | "file" | "dir" | "symlink" | "other"
  mtime,        \* TimedFiles -> the file's modification time
  faults,       \* failing calls: <<"realpath"|"readdir"|"stat"|"utimes"|..., path>>
  real,         \* DirPaths -> canonical identity returned by fs.realpath
  csv,          \* <root>/metadata.csv: "absent", "corrupt" or its lines
  envSteps,     \* environment changes so far
  pc,           \* "idle" | "scan"
  appendOnly,   \* options.appendOnly of the running scanFolder
  allMetadata,  \* scanFolder's allMetadata (the loaded ledger)
  existingFiles,\* scanFolder's existingFiles
  stack,        \* active scanDirectory calls, the root's first
  diagnostics,  \* the diagnostics object shared by all scanDirectory calls
  scanLog,      \* what the calls of the current scan did (history)
  lastOp,       \* last completed operation
  startCsv,     \* csv when the last scan started (history)
  startOp,      \* lastOp when the last scan started (history)
  lastNew,      \* newMetadata of the last scan, as a bag (history)
  outcome       \* what the last restore, rm or clean command reported

vars == << kind, mtime, faults, real, csv, envSteps, pc, appendOnly,
           allMetadata, existingFiles, stack, diagnostics, scanLog, lastOp,
           startCsv, startOp, lastNew, outcome >>

fsVars == << kind, mtime, faults, real >>
scanLocals == << appendOnly, allMetadata, existingFiles >>
histVars == << startCsv, startOp >>

-----------------------------------------------------------------------------
(* The filesystem as the scanner sees it *)

\* What a symbolic link resolves to; any other path is itself.
Resolve(p) == IF p \in SymlinkPaths THEN target(p) ELSE p

LedgerPath == <<nMeta>>

\* The type a Dirent reports (readdir with withFileTypes): the entry's own
\* type, a symbolic link's being "symlink" whatever it points to.
DirentKind(p) == IF p = LedgerPath THEN "file" ELSE kind[p]

\* Names fs.readdir(dirPath) returns.
Entries(d) ==
  { Last(p) : p \in { q \in Universe : /\ Len(q) = Len(d) + 1
                                        /\ SubSeq(q, 1, Len(d)) = d
                                        /\ kind[q] # "none" } }
  \cup (IF d = Root /\ csv.state # "absent" THEN {nMeta} ELSE {})

ByteCompare(s, t) ==
  LexCompare([i \in 1..Len(s) |-> CodePoint(s[i])],
             [i \in 1..Len(t) |-> CodePoint(t[i])])

\* The names of S in ascending byte order.
Ascending(S) ==
  [k \in 1..Cardinality(S) |->
     CHOOSE x \in S : Cardinality({y \in S : ByteCompare(y, x) < 0}) = k - 1]

Reverse(s) == [i \in 1..Len(s) |-> s[Len(s) + 1 - i]]

\* fs.readdir promises no order: the entries come in one of two opposite
\* orders, so every two entries are seen both ways round.
ReaddirOrders(d) == { Ascending(Entries(d)), Reverse(Ascending(Entries(d))) }

\* fs.realpath(dirPath)
realpath(dirPath) == real[Resolve(dirPath)]

\* (await fs.stat(fullPath)).mtime: stat follows symbolic links.  The time of
\* metadata.csv itself is not kept; the epoch stands for it.
statMtime(fullPath) ==
  IF Resolve(fullPath) \in DOMAIN mtime THEN mtime[Resolve(fullPath)] ELSE 0

\* The classification of one directory entry, with stat-like types that
\* follow symbolic links and no link test.
EntryClassFollowingLinks(fullPath) ==
  IF isSymlink(Last(fullPath)) THEN "skip"
  ELSE IF Last(fullPath) = nMeta THEN "skip"
  ELSE IF DirentKind(Resolve(fullPath)) = "dir" THEN "dir"
  ELSE IF DirentKind(Resolve(fullPath)) = "file" THEN "file"
  ELSE "other"

\* The classification with no test for the name of the ledger file.
EntryClassRecordingLedger(fullPath) ==
  IF DirentKind(fullPath) = "symlink" \/ isSymlink(Last(fullPath)) THEN "skip"
  ELSE IF DirentKind(fullPath) = "dir" THEN "dir"
  ELSE IF DirentKind(fullPath) = "file" THEN "file"
  ELSE "other"

\* scanDirectory's branching on one directory entry (cli.ts 538-609).
EntryClass(fullPath) ==
  IF DirentKind(fullPath) = "symlink" \/ isSymlink(Last(fullPath)) THEN "skip"
  ELSE IF Last(fullPath) = nMeta THEN "skip"
  ELSE IF DirentKind(fullPath) = "dir" THEN "dir"
  ELSE IF DirentKind(fullPath) = "file" THEN "file"
  ELSE "other"

-----------------------------------------------------------------------------
(* The ledger file *)

Header == <<"path", "modifiedTime">>

AbsentCsv == [state |-> "absent", header |-> <<>>, rows |-> <<>>]
CorruptCsv == [state |-> "corrupt", header |-> <<>>, rows |-> <<>>]

Column(header, name) == CHOOSE i \in 1..Len(header) : header[i] = name

\* csv-parse with columns: true: the first line names the columns, every
\* further line becomes a record.
parse(file) ==
  [i \in 1..Len(file.rows) |->
     [path |-> file.rows[i][Column(file.header, "path")],
      modifiedTime |-> file.rows[i][Column(file.header, "modifiedTime")]]]

\* The records read last line first.
loadExistingMetadataReversed ==
  IF csv.state = "ok" THEN Reverse(parse(csv)) ELSE <<>>

\* A file that is missing or cannot be parsed giving a record of its own.
loadExistingMetadataSalvaging ==
  IF csv.state = "ok" THEN parse(csv)
  ELSE << [path |-> nMeta, modifiedTime |-> toISOString(0)] >>

\* loadExistingMetadata (cli.ts 627-643): a file that cannot be read or
\* parsed gives [].
loadExistingMetadata ==
  IF csv.state = "ok" THEN parse(csv) ELSE <<>>

\* writeMetadata: csv-stringify with header: true, columns path, modifiedTime.
writeMetadata(metadata) ==
  [state |-> "ok", header |-> Header,
   rows |-> [i \in 1..Len(metadata) |->
               <<metadata[i].path, metadata[i].modifiedTime>>]]

\* Array.prototype.sort is stable: a record comes after the records that
\* compare smaller and after the earlier records that compare equal.
SortRecords(s) ==
  LET rank(i) ==
        Cardinality({j \in 1..Len(s) :
                       \/ localeCompare(s[j].path, s[i].path) < 0
                       \/ (j < i /\ localeCompare(s[j].path, s[i].path) = 0)})
  IN [k \in 1..Len(s) |-> s[CHOOSE i \in 1..Len(s) : rank(i) = k - 1]]

\* The records left in the order they were found.
sortByPathNot(metadata) == metadata

\* allMetadata.sort((a, b) => a.path.localeCompare(b.path))
sortByPath(metadata) == SortRecords(metadata)

\* How often each record occurs in a sequence.
BagOf(s) == [r \in Range(s) |-> Cardinality({i \in 1..Len(s) : s[i] = r})]

-----------------------------------------------------------------------------
(* Diagnostics *)

EmptyDiagnostics == [skippedPaths |-> <<>>, issues |-> <<>>, detailedAnalysis |-> <<>>]

\* The issue pushed without the path of the entry it is about.
PushIssueNoPath(diag, type, relativePath) ==
  [diag EXCEPT !.skippedPaths = Append(@, relativePath),
               !.issues = Append(@, [type |-> type, path |-> <<>>])]

\* The issue pushed without its skipped path.
PushIssueUnpaired(diag, type, relativePath) ==
  [diag EXCEPT !.issues = Append(@, [type |-> type, path |-> relativePath])]

\* diagnostics.skippedPaths.push(relativePath); diagnostics.issues.push(...)
PushIssue(diag, type, relativePath) ==
  [diag EXCEPT !.skippedPaths = Append(@, relativePath),
               !.issues = Append(@, [type |-> type, path |-> relativePath])]

\* diagnostics.detailedAnalysis.push(...analysis): the report of
\* analyzeProblematicDirectory (stat and find output) for one directory.
PushAnalysis(diag, issueType, relativePath) ==
  [diag EXCEPT !.detailedAnalysis =
     Append(@, [type |-> issueType, path |-> relativePath])]

EmptyLog == [called |-> {}, listed |-> {}, cycle |-> {}, deep |-> {}, failed |-> {}]

-----------------------------------------------------------------------------
(* Initial state: a tree with files, a directory chain deeper than the     *)
(* depth limit, a sibling directory, two symbolic links and no ledger.     *)

InitKind ==
  [p \in Tracked |->
     IF p \in DirPaths THEN "dir"
     ELSE IF p \in CleanDirs THEN "none"
     ELSE IF p \in SymlinkPaths THEN "symlink"
     ELSE IF p \in OtherPaths THEN "other"
     ELSE IF p = <<nD, nA>> THEN "none"
     ELSE "file"]

InitReal == [d \in DirPaths |-> IF d = <<nE>> THEN ChainLen + 1 ELSE Len(d)]

\* const results = { success: [], failed: [] } of removeRelative
NoResults == [success |-> <<>>, failed |-> <<>>]

\* const stats: CleanStats of cleanDirectories (cleaner.ts 191-197)
NoStats == [scannedDirs |-> 0, deletedDirs |-> 0, deletedFiles |-> 0,
            freedSpace |-> 0, skippedDirs |-> 0]

\* options: CleanOptions = {} (cleaner.ts 174); patterns is the empty set
\* where the option is not given, and holds the list where it is.
NoOptions == [dryRun |-> FALSE, includeCareful |-> FALSE,
              includeDangerous |-> FALSE, patterns |-> {}]

NoOutcome == [platform |-> "none", touch |-> "none",
              restoredCount |-> 0, errorCount |-> 0,
              warnings |-> <<>>, applied |-> {}, exitCode |-> 0,
              results |-> NoResults, stats |-> NoStats, options |-> NoOptions]

Init ==
  /\ kind = InitKind
  /\ mtime = [p \in TimedFiles |-> 61123]
  /\ faults = {}
  /\ real = InitReal
  /\ csv = AbsentCsv
  /\ envSteps = 0
  /\ pc = "idle"
  /\ appendOnly = FALSE
  /\ allMetadata = <<>>
  /\ existingFiles = {}
  /\ stack = <<>>
  /\ diagnostics = EmptyDiagnostics
  /\ scanLog = EmptyLog
  /\ lastOp = "none"
  /\ startCsv = AbsentCsv
  /\ startOp = "none"
  /\ lastNew = <<>>
  /\ outcome = NoOutcome

-----------------------------------------------------------------------------
(* scanFolder and scanDirectory *)

\* One scanDirectory call about to run its checks.
NewFrame(dirPath, visitedPaths, depth) ==
  [dirPath |-> dirPath, depth |-> depth, visitedPaths |-> visitedPaths,
   realPath |-> -1, items |-> <<>>, entries |-> <<>>, phase |-> "enter"]

Top == stack[Len(stack)]

\* The depth test taken one level too early.
depthExceededEarly(depth) == depth >= maxDepth

\* The limit taken one level too late.
depthExceededLate(depth) == depth > maxDepth + 1

\* depth > maxDepth (cli.ts 492)
depthExceeded(depth) == depth > maxDepth

\* The real path looked up among those of every directory listed so far in
\* the scan, not only the ancestors'.
isCircularAnywhere(visitedPaths, realPath) ==
  realPath \in visitedPaths \cup {realpath(d) : d \in scanLog.listed}

\* The lineage test left out.
isCircularNever(visitedPaths, realPath) == FALSE

\* visitedPaths.has(realPath) (cli.ts 511)
isCircular(visitedPaths, realPath) == realPath \in visitedPaths

\* The recursive call handed its caller's depth.
childDepthSame(depth) == depth

\* depth + 1, the depth handed to the recursive call (cli.ts 556)
childDepth(depth) == depth + 1

\* new Set(visitedPaths), the lineage handed to the recursive call (cli.ts 555)
childVisited(visitedPaths) == visitedPaths

\* The prior ledger loaded whatever the mode.
initialMetadataAlways(ao) == loadExistingMetadata

\* let allMetadata = [] ... if (options.appendOnly) allMetadata = existingMetadata
initialMetadata(ao) == IF ao THEN loadExistingMetadata ELSE <<>>

\* The set of listed paths left empty.
existingPathsNone(metadata) == {}

\* new Set(existingMetadata.map(m => m.path)) (cli.ts 685)
existingPaths(metadata) == {r.path : r \in Range(metadata)}

\* The test for paths the ledger already holds left out.
alreadyListedNever(files, relativePath) == FALSE

\* existingFiles.has(relativePath) (cli.ts 594)
alreadyListed(files, relativePath) == relativePath \in files

\* The record pushed for a file (cli.ts 599-603).
fileRecord(fullPath) ==
  [path |-> relative(fullPath), modifiedTime |-> toISOString(statMtime(fullPath))]

\* scanFolder after scanDirectory has returned newMetadata (cli.ts 734-741):
\* combine, sort, write.
finalLedger(existing, newMetadata) ==
  writeMetadata(sortByPath(existing \o newMetadata))

\* Paths scanFolder is called on: the root, a regular file, a path that may
\* not exist.
ScanArguments == { Root, <<nA>>, <<nD, nA>> }

\* Every path taken for a directory.
statIsDirectoryAlways(folderPath) == TRUE

\* fs.stat(resolvedPath) succeeds and stats.isDirectory() (cli.ts 666-675)
statIsDirectory(folderPath) == DirentKind(Resolve(folderPath)) = "dir"

\* scanFolder up to the call of scanDirectory on the root (cli.ts 660-691);
\* on a path that does not exist or is no directory it ends the process with
\* exit code 1 (cli.ts 668-674).
ScanFolder(folderPath, ao) ==
  /\ pc = "idle"
  /\ appendOnly' = ao
  /\ diagnostics' = EmptyDiagnostics
  /\ startCsv' = csv
  /\ startOp' = lastOp
  /\ lastNew' = <<>>
  /\ IF statIsDirectory(folderPath)
     THEN /\ pc' = "scan"
          /\ allMetadata' = initialMetadata(ao)
          /\ existingFiles' = existingPaths(initialMetadata(ao))
          /\ stack' = << NewFrame(folderPath, {}, 0) >>
          /\ scanLog' = [EmptyLog EXCEPT !.called = {folderPath}]
          /\ lastOp' = "scanning"
          /\ outcome' = NoOutcome
     ELSE /\ lastOp' = "scanRejected"
          /\ scanLog' = EmptyLog
          /\ outcome' = [NoOutcome EXCEPT !.exitCode = 1]
          /\ UNCHANGED << pc, allMetadata, existingFiles, stack >>
  /\ UNCHANGED << fsVars, csv, envSteps >>

\* "return entries" of the active call: to the parent's
\* entries.push(...subEntries), or, from the root call, to the rest of
\* scanFolder, which writes the ledger.
Return(entries, diag, log) ==
  /\ diagnostics' = diag
  /\ scanLog' = log
  /\ IF Len(stack) = 1
     THEN /\ csv' = finalLedger(allMetadata, entries)
          /\ lastNew' = BagOf(entries)
          /\ lastOp' = IF appendOnly THEN "scanAppend" ELSE "scanReplace"
          /\ pc' = "idle"
          /\ stack' = <<>>
          /\ allMetadata' = <<>>
          /\ existingFiles' = {}
          /\ UNCHANGED << fsVars, envSteps, appendOnly, histVars, outcome >>
     ELSE /\ stack' = [SubSeq(stack, 1, Len(stack) - 1)
                         EXCEPT ![Len(stack) - 1].entries = @ \o entries]
          /\ UNCHANGED << fsVars, csv, envSteps, pc, scanLocals, histVars,
                          lastOp, lastNew, outcome >>

Entering == pc = "scan" /\ Top.phase = "enter"
Looping == pc = "scan" /\ Top.phase = "loop"

\* cli.ts 492-497
DepthExceeded ==
  /\ Entering
  /\ depthExceeded(Top.depth)
  /\ Return(<<>>,
            PushIssue(diagnostics, "DEEP_NESTING", relative(Top.dirPath)),
            [scanLog EXCEPT !.deep = @ \cup {Top.dirPath}])

\* cli.ts 500-508: fs.realpath throws
RealpathFails ==
  /\ Entering
  /\ ~depthExceeded(Top.depth)
  /\ <<"realpath", Resolve(Top.dirPath)>> \in faults
  /\ Return(<<>>,
            PushIssue(diagnostics, "PERMISSION_DENIED", relative(Top.dirPath)),
            [scanLog EXCEPT !.failed = @ \cup {<<"realpath", Top.dirPath>>}])

\* History: the call found its real path among its ancestors'.
LogCycle(log) ==
  IF realpath(Top.dirPath) \in Top.visitedPaths
  THEN [log EXCEPT !.cycle = @ \cup {Top.dirPath}]
  ELSE log

\* cli.ts 510-526
CycleDetected ==
  /\ Entering
  /\ ~depthExceeded(Top.depth)
  /\ <<"realpath", Resolve(Top.dirPath)>> \notin faults
  /\ isCircular(Top.visitedPaths, realpath(Top.dirPath))
  /\ Return(<<>>,
            PushAnalysis(
              PushIssue(diagnostics, "CIRCULAR_SYMLINK", relative(Top.dirPath)),
              "CIRCULAR_SYMLINK", relative(Top.dirPath)),
            LogCycle(scanLog))

Admitted ==
  /\ Entering
  /\ ~depthExceeded(Top.depth)
  /\ <<"realpath", Resolve(Top.dirPath)>> \notin faults
  /\ ~isCircular(Top.visitedPaths, realpath(Top.dirPath))

\* cli.ts 528-532: visitedPaths.add(realPath); items = await fs.readdir(...)
ReadDirectory ==
  /\ Admitted
  /\ <<"readdir", Resolve(Top.dirPath)>> \notin faults
  /\ \E order \in ReaddirOrders(Resolve(Top.dirPath)) :
       stack' = [stack EXCEPT ![Len(stack)] =
                   [@ EXCEPT !.realPath = realpath(Top.dirPath),
                             !.visitedPaths = @ \cup {realpath(Top.dirPath)},
                             !.items = order,
                             !.phase = "loop"]]
  /\ scanLog' = LogCycle([scanLog EXCEPT !.listed = @ \cup {Top.dirPath}])
  /\ UNCHANGED << fsVars, csv, envSteps, pc, scanLocals, diagnostics, histVars,
                  lastOp, lastNew, outcome >>

\* cli.ts 611-621: fs.readdir throws; the call returns its empty entries.
ReaddirFails ==
  /\ Admitted
  /\ <<"readdir", Resolve(Top.dirPath)>> \in faults
  /\ Return(<<>>,
            PushIssue(diagnostics, "DIRECTORY_READ_ERROR", relative(Top.dirPath)),
            LogCycle([scanLog EXCEPT !.failed = @ \cup {<<"readdir", Top.dirPath>>}]))

Item == join(Top.dirPath, Head(Top.items))

AtItem == Looping /\ Top.items # <<>>

Advance(frame) == [frame EXCEPT !.items = Tail(@)]

StepInLoop(newTop, diag, log) ==
  /\ stack' = [stack EXCEPT ![Len(stack)] = newTop]
  /\ diagnostics' = diag
  /\ scanLog' = log
  /\ UNCHANGED << fsVars, csv, envSteps, pc, scanLocals, histVars, lastOp,
                  lastNew, outcome >>

\* cli.ts 538-546: a symbolic link, a link-like name, or metadata.csv
SkipItem ==
  /\ AtItem
  /\ EntryClass(Item) = "skip"
  /\ StepInLoop(Advance(Top), diagnostics, scanLog)

\* neither isDirectory() nor isFile(): nothing is done with the entry
IgnoreItem ==
  /\ AtItem
  /\ EntryClass(Item) = "other"
  /\ StepInLoop(Advance(Top), diagnostics, scanLog)

\* cli.ts 548-559: the recursive call
Descend ==
  /\ AtItem
  /\ EntryClass(Item) = "dir"
  /\ stack' = Append([stack EXCEPT ![Len(stack)] = Advance(Top)],
                     NewFrame(Item, childVisited(Top.visitedPaths),
                              childDepth(Top.depth)))
  /\ scanLog' = [scanLog EXCEPT !.called = @ \cup {Item}]
  /\ UNCHANGED << fsVars, csv, envSteps, pc, scanLocals, diagnostics, histVars,
                  lastOp, lastNew, outcome >>

\* cli.ts 593-596
SkipExisting ==
  /\ AtItem
  /\ EntryClass(Item) = "file"
  /\ alreadyListed(existingFiles, relative(Item))
  /\ StepInLoop(Advance(Top), diagnostics, scanLog)

\* cli.ts 598-603
RecordFile ==
  /\ AtItem
  /\ EntryClass(Item) = "file"
  /\ ~alreadyListed(existingFiles, relative(Item))
  /\ <<"stat", Resolve(Item)>> \notin faults
  /\ StepInLoop([Advance(Top) EXCEPT !.entries = Append(@, fileRecord(Item))],
                diagnostics, scanLog)

\* cli.ts 604-608: fs.stat throws
StatFails ==
  /\ AtItem
  /\ EntryClass(Item) = "file"
  /\ ~alreadyListed(existingFiles, relative(Item))
  /\ <<"stat", Resolve(Item)>> \in faults
  /\ StepInLoop(Advance(Top),
                PushIssue(diagnostics, "FILE_ACCESS_ERROR", relative(Item)),
                [scanLog EXCEPT !.failed = @ \cup {<<"stat", Item>>}])

\* cli.ts 618-621: the loop is over
ReturnEntries ==
  /\ Looping
  /\ Top.items = <<>>
  /\ Return(Top.entries, diagnostics, scanLog)

ScanStep ==
  \/ DepthExceeded \/ RealpathFails \/ CycleDetected \/ ReadDirectory
  \/ ReaddirFails \/ SkipItem \/ IgnoreItem \/ Descend \/ SkipExisting
  \/ RecordFile \/ StatFails \/ ReturnEntries

-----------------------------------------------------------------------------
(* restoreTimestamps and setFileTimestamps *)

\* path.join normalises what it joins: the slashes a path string starts with
\* fall together with the separator, so the string stays below the folder.
RECURSIVE normalize(_)
normalize(pathString) ==
  IF pathString # <<>> /\ pathString[1] = "/"
  THEN normalize(Tail(pathString))
  ELSE pathString

\* join(extractedFolderPath, entry.path): the entry the string names, if any.
\* A string that starts with ".." names an entry of the folder's parent.
Named(pathString) ==
  {p \in Universe \cup {LedgerPath} \cup OutsideFiles :
     relative(p) = normalize(pathString)}

\* Every path taken to exist.
accessibleAlways(pathString) == TRUE

\* fs.access(filePath) succeeds: the path, followed through links, exists.
accessible(pathString) ==
  \E p \in Named(pathString) : DirentKind(Resolve(p)) # "none"

\* touch -t sets the access and modification times to the instant its
\* argument denotes (info.ts 236-245).
touched(timestamp) == touchInstant(touchFormat(timestamp))

\* A touch command that fails taking the update of fs.utimes with it.
setFileTimestampsTouchFatal(m, pathString, timestamp, platform, touchWorks) ==
  LET p == Resolve(CHOOSE q \in Named(pathString) : TRUE)
  IN IF <<"utimes", p>> \in faults \/ p \notin DOMAIN m THEN m
     ELSE IF platform = "darwin"
          THEN IF touchWorks THEN [m EXCEPT ![p] = touched(timestamp)] ELSE m
          ELSE [m EXCEPT ![p] = timestamp]

\* setFileTimestamps (info.ts 228-253) on the modification times m: fs.utimes,
\* then on darwin touch -t, whose failure is swallowed.
setFileTimestamps(m, pathString, timestamp, platform, touchWorks) ==
  LET p == Resolve(CHOOSE q \in Named(pathString) : TRUE)
  IN IF <<"utimes", p>> \in faults \/ p \notin DOMAIN m THEN m
     ELSE IF platform = "darwin" /\ touchWorks
          THEN [m EXCEPT ![p] = touched(timestamp)]
          ELSE [m EXCEPT ![p] = timestamp]

\* fs.utimes set the times of the file (it did not throw).
utimesApplied(pathString) ==
  LET p == Resolve(CHOOSE q \in Named(pathString) : TRUE)
  IN <<"utimes", p>> \notin faults

\* One console.warn of the restorer: what it is about and the path it names.
Warning(about, pathString) == [about |-> about, path |-> pathString]

\* A record that failed and is not counted.
countErrorNot(errorCount) == errorCount

\* errorCount++ (info.ts 285)
countError(errorCount) == errorCount + 1

\* The loop of restoreTimestamps (info.ts 272-287) over metadata[i..].
RECURSIVE restoreLoop(_, _, _, _, _)
restoreLoop(metadata, i, acc, platform, touchWorks) ==
  IF i > Len(metadata) THEN acc
  ELSE LET entry == metadata[i]
       IN IF ~accessible(entry.path)
          THEN restoreLoop(metadata, i + 1,
                 [acc EXCEPT !.errorCount = countError(@),
                             !.warnings = Append(@, Warning("missing", entry.path))],
                 platform, touchWorks)
          ELSE restoreLoop(metadata, i + 1,
                 [acc EXCEPT
                    !.mtime = setFileTimestamps(@, entry.path,
                                fromISOString(entry.modifiedTime),
                                platform, touchWorks),
                    !.restoredCount = @ + 1,
                    !.warnings = IF utimesApplied(entry.path) THEN @
                                 ELSE Append(@, Warning("utimes", entry.path)),
                    !.applied = IF utimesApplied(entry.path)
                                THEN @ \cup {entry.path} ELSE @],
                 platform, touchWorks)

\* The empty-ledger test never taken.
noMetadataNever(metadata) == FALSE

\* metadata.length === 0 (info.ts 264)
noMetadata(metadata) == Len(metadata) = 0

\* restoreTimestamps (info.ts 258-298) on files with the modification times
\* m0: the times and the counters it ends with.  loadMetadata never throws
\* (cli.ts 639-642), so the catch of 294-297 is never entered.
restoreResult(m0, platform, touchWorks) ==
  LET metadata == loadExistingMetadata
      start == [mtime |-> m0, restoredCount |-> 0, errorCount |-> 0,
                warnings |-> <<>>, applied |-> {}]
  IN IF noMetadata(metadata)
     THEN [start EXCEPT !.warnings = << Warning("empty", <<>>) >>]
     ELSE restoreLoop(metadata, 1, start, platform, touchWorks)

\* What a run of the restorer reports, with how its touch commands went
\* (none are run where process.platform is not darwin, info.ts 234).
Report(res, platform, touchWorks, code) ==
  [NoOutcome EXCEPT
     !.platform = platform,
     !.touch = IF platform # "darwin" THEN "none"
               ELSE IF touchWorks THEN "ok" ELSE "failed",
     !.restoredCount = res.restoredCount,
     !.errorCount = res.errorCount, !.warnings = res.warnings,
     !.applied = res.applied, !.exitCode = code]

\* restoreTimestamps (info.ts 258-298) on the root, on the given platform;
\* touchWorks: whether the touch commands of this run succeed.
RestoreTimestamps(platform, touchWorks) ==
  /\ pc = "idle"
  /\ lastOp # "restore"
  /\ LET res == restoreResult(mtime, platform, touchWorks)
     IN /\ mtime' = res.mtime
        /\ outcome' = Report(res, platform, touchWorks, 0)
  /\ lastOp' = "restore"
  /\ UNCHANGED << kind, faults, real, csv, envSteps, pc, scanLocals, stack,
                  diagnostics, scanLog, histVars, lastNew >>

\* fs.access(metadataPath) (info.ts 397-398): the extracted folder holds a
\* metadata.csv, readable or not.
hasLedger == csv.state # "absent"

\* decompressArchive (info.ts 303-412) from the extraction on: tar writes the
\* files, a missing metadata.csv ends the process with exit code 1, otherwise
\* restoreTimestamps runs on the extracted folder.
DecompressArchive(platform, touchWorks) ==
  /\ pc = "idle"
  /\ lastOp # "decompress"
  /\ \E now \in Times :
       LET extracted == [p \in TimedFiles |->
                           IF p \in FilePaths THEN now ELSE mtime[p]]
           res == restoreResult(extracted, platform, touchWorks)
       IN IF hasLedger
          THEN /\ mtime' = res.mtime
               /\ outcome' = Report(res, platform, touchWorks, 0)
          ELSE /\ mtime' = extracted
               /\ outcome' = [NoOutcome EXCEPT !.platform = platform,
                                               !.exitCode = 1]
  /\ lastOp' = "decompress"
  /\ UNCHANGED << kind, faults, real, csv, envSteps, pc, scanLocals, stack,
                  diagnostics, scanLog, histVars, lastNew >>

-----------------------------------------------------------------------------
(* The environment: what happens to the tree between two operations *)

FaultUniverse ==
  { <<"stat", <<nB>>>>, <<"readdir", <<nD>>>>, <<"realpath", <<nE>>>>,
    <<"utimes", <<nB>>>> }

RelinkDirs == { Chain(1), Chain(2), <<nE>> }

\* A ledger not written by scanFolder: rows out of order, one path twice, one
\* path of a file that is not in the tree.
HandMadeCsv ==
  [state |-> "ok", header |-> Header,
   rows |-> << <<relative(<<nE, nA>>), toISOString(1000)>>,
               <<relative(<<nD, nA>>), toISOString(1000)>>,
               <<relative(<<nA>>), toISOString(1000)>>,
               <<relative(<<nA>>), toISOString(61123)>> >>]

\* What a finished scan left behind (its diagnostics object and the history
\* of its calls) is dropped with the first change of the tree.
EnvStep ==
  /\ pc = "idle"
  /\ envSteps < MaxEnvSteps
  /\ envSteps' = envSteps + 1
  /\ lastOp' = "env"
  /\ diagnostics' = EmptyDiagnostics
  /\ scanLog' = EmptyLog
  /\ startCsv' = AbsentCsv
  /\ startOp' = "none"
  /\ lastNew' = <<>>
  /\ UNCHANGED << pc, scanLocals, stack, outcome >>

\* A file is created or rewritten.
WriteFile(p, t) ==
  /\ EnvStep
  /\ kind[p] = "none" \/ (kind[p] = "file" /\ mtime[p] # t)
  /\ kind' = [kind EXCEPT ![p] = "file"]
  /\ mtime' = [mtime EXCEPT ![p] = t]
  /\ UNCHANGED << faults, real, csv >>

\* A file is removed.
RemoveFile(p) ==
  /\ EnvStep
  /\ kind[p] = "file"
  /\ kind' = [kind EXCEPT ![p] = "none"]
  /\ UNCHANGED << mtime, faults, real, csv >>

\* Permissions change: a call starts or stops failing.
ToggleFault(f) ==
  /\ EnvStep
  /\ faults' = IF f \in faults THEN faults \ {f} ELSE faults \cup {f}
  /\ UNCHANGED << kind, mtime, real, csv >>

\* A directory comes to resolve to another canonical path.
Relink(d, id) ==
  /\ EnvStep
  /\ real[d] # id
  /\ real' = [real EXCEPT ![d] = id]
  /\ UNCHANGED << kind, mtime, faults, csv >>

\* The ledger file is replaced from outside.
EditLedger(file) ==
  /\ EnvStep
  /\ csv # file
  /\ csv' = file
  /\ UNCHANGED << kind, mtime, faults, real >>

Environment ==
  \/ \E p \in MutableFiles, t \in Times : WriteFile(p, t)
  \/ \E p \in MutableFiles : RemoveFile(p)
  \/ \E f \in FaultUniverse : ToggleFault(f)
  \/ \E d \in RelinkDirs, id \in {0, 1} : Relink(d, id)
  \/ \E file \in {CorruptCsv, HandMadeCsv} : EditLedger(file)

Next ==
  \/ \E folderPath \in ScanArguments, ao \in BOOLEAN : ScanFolder(folderPath, ao)
  \/ ScanStep
  \/ Environment

Spec == Init /\ [][Next]_vars

-----------------------------------------------------------------------------
(* decompressArchive on an extracted folder: every kind of ledger, files   *)
(* the ledger lists present or missing, fs.utimes working or failing.      *)

\* A metadata.csv with its header and no record.
EmptyCsv == [state |-> "ok", header |-> Header, rows |-> <<>>]

\* A ledger as a scan wrote it, one of its files missing from the folder.
ArchivedCsv ==
  [state |-> "ok", header |-> Header,
   rows |-> << <<relative(<<nA>>), toISOString(61123)>>,
               <<relative(<<nB>>), toISOString(1000)>>,
               <<relative(<<nD, nA>>), toISOString(1000)>>,
               <<relative(<<nE, nA>>), toISOString(61123)>> >>]

\* A ledger whose paths leave the folder or start with a slash: ../s names
\* the file beside the folder, /a the folder's own a.
TraversalCsv ==
  [state |-> "ok", header |-> Header,
   rows |-> << <<relative(<<nB>>), toISOString(1000)>>,
               <<relative(<<nUp, nS>>), toISOString(1000)>>,
               <<<<"/">> \o relative(<<nA>>), toISOString(1000)>> >>]

DecompressInit ==
  /\ kind \in { InitKind, [InitKind EXCEPT ![<<nD, nA>>] = "file"],
                 [InitKind EXCEPT ![<<nA>>] = "none"] }
  /\ mtime = [p \in TimedFiles |-> 61123]
  /\ faults \in { {}, {<<"utimes", <<nB>>>>} }
  /\ real = InitReal
  /\ csv \in { AbsentCsv, CorruptCsv, EmptyCsv, HandMadeCsv, ArchivedCsv,
               TraversalCsv }
  /\ envSteps = 0
  /\ pc = "idle"
  /\ appendOnly = FALSE
  /\ allMetadata = <<>>
  /\ existingFiles = {}
  /\ stack = <<>>
  /\ diagnostics = EmptyDiagnostics
  /\ scanLog = EmptyLog
  /\ lastOp = "none"
  /\ startCsv = AbsentCsv
  /\ startOp = "none"
  /\ lastNew = <<>>
  /\ outcome = NoOutcome

DecompressNext ==
  \E platform \in {"linux", "darwin"}, touchWorks \in BOOLEAN :
    DecompressArchive(platform, touchWorks)

DecompressSpec == DecompressInit /\ [][DecompressNext]_vars

-----------------------------------------------------------------------------
(* A root whose ledger only scanFolder writes: the tree changes between    *)
(* scans, metadata.csv is left alone.                                      *)

OwnLedgerNext ==
  \/ \E folderPath \in ScanArguments, ao \in BOOLEAN : ScanFolder(folderPath, ao)
  \/ ScanStep
  \/ \E p \in MutableFiles, t \in Times : WriteFile(p, t)
  \/ \E p \in MutableFiles : RemoveFile(p)
  \/ \E f \in FaultUniverse : ToggleFault(f)
  \/ \E d \in RelinkDirs, id \in {0, 1} : Relink(d, id)

OwnLedgerSpec == Init /\ [][OwnLedgerNext]_vars

-----------------------------------------------------------------------------
(* Scans alone, over every real-path mapping of the directories a walk     *)
(* resolves, with and without failing calls.  A scan that has started is   *)
(* run on by the event loop until it returns: its steps are weakly fair.   *)

RealMappings ==
  { [d \in DirPaths |-> IF d \in RelinkDirs THEN c[d] ELSE InitReal[d]] :
      c \in [RelinkDirs -> 0..2] }

ScanFaults == { <<"stat", <<nB>>>>, <<"readdir", <<nD>>>>, <<"realpath", <<nE>>>> }

ScanInit ==
  /\ kind = InitKind
  /\ mtime = [p \in TimedFiles |-> 61123]
  /\ faults \in { {}, ScanFaults }
  /\ real \in RealMappings
  /\ csv = AbsentCsv
  /\ envSteps = 0
  /\ pc = "idle"
  /\ appendOnly = FALSE
  /\ allMetadata = <<>>
  /\ existingFiles = {}
  /\ stack = <<>>
  /\ diagnostics = EmptyDiagnostics
  /\ scanLog = EmptyLog
  /\ lastOp = "none"
  /\ startCsv = AbsentCsv
  /\ startOp = "none"
  /\ lastNew = <<>>
  /\ outcome = NoOutcome

ScanNext ==
  \/ \E folderPath \in ScanArguments, ao \in BOOLEAN : ScanFolder(folderPath, ao)
  \/ ScanStep

ScanSpec == ScanInit /\ [][ScanNext]_vars /\ WF_vars(ScanStep)

-----------------------------------------------------------------------------
(* Scan, reconstruct, restore: the round trip of compress and decompress   *)

\* The tar extraction of decompressArchive (info.ts 354-370): the files of
\* the tree are written anew, with the modification time the extraction
\* gives them.
Extract ==
  /\ pc = "idle"
  /\ lastOp \in {"scanReplace", "scanAppend"}
  /\ \E now \in Times :
       mtime' = [p \in TimedFiles |-> IF p \in FilePaths THEN now ELSE mtime[p]]
  /\ lastOp' = "extract"
  /\ UNCHANGED << kind, faults, real, csv, envSteps, pc, scanLocals, stack,
                  diagnostics, scanLog, histVars, lastNew, outcome >>

RestoreInit ==
  /\ kind = InitKind
  /\ mtime \in { [p \in TimedFiles |-> IF p \in {<<nA>>, <<nB>>, <<nE, nA>>}
                                        THEN m[p] ELSE 61123] :
                    m \in [{<<nA>>, <<nB>>, <<nE, nA>>} -> Times] }
  /\ faults \in { {}, {<<"utimes", <<nB>>>>}, FaultUniverse }
  /\ real \in { InitReal, [InitReal EXCEPT ![Chain(1)] = 0] }
  /\ csv = AbsentCsv
  /\ envSteps = 0
  /\ pc = "idle"
  /\ appendOnly = FALSE
  /\ allMetadata = <<>>
  /\ existingFiles = {}
  /\ stack = <<>>
  /\ diagnostics = EmptyDiagnostics
  /\ scanLog = EmptyLog
  /\ lastOp = "none"
  /\ startCsv = AbsentCsv
  /\ startOp = "none"
  /\ lastNew = <<>>
  /\ outcome = NoOutcome

RestoreNext ==
  \/ \E folderPath \in ScanArguments, ao \in BOOLEAN : ScanFolder(folderPath, ao)
  \/ ScanStep
  \/ Extract
  \/ \E platform \in {"linux", "darwin"}, touchWorks \in BOOLEAN :
       RestoreTimestamps(platform, touchWorks)

RestoreSpec == RestoreInit /\ [][RestoreNext]_vars

-----------------------------------------------------------------------------
(* What the claims speak of *)

AfterScan == pc = "idle" /\ lastOp \in {"scanReplace", "scanAppend"}

Parent(p) == SubSeq(p, 1, Len(p) - 1)

IsUnder(d, p) == Len(p) > Len(d) /\ SubSeq(p, 1, Len(d)) = d

ProperAncestors(d) == {SubSeq(d, 1, k) : k \in 0..(Len(d) - 1)}

\* The directories a walk of the present tree lists, told from the tree alone:
\* real directories reached through listed directories, within the depth
\* limit, resolvable, not resolving to an ancestor's real path, readable.
RECURSIVE WalkLists(_)
WalkLists(d) ==
  /\ kind[d] = "dir"
  /\ ~isSymlink(IF d = Root THEN <<>> ELSE Last(d))
  /\ d = Root \/ WalkLists(Parent(d))
  /\ Len(d) <= maxDepth
  /\ <<"realpath", d>> \notin faults
  /\ real[d] \notin {real[a] : a \in ProperAncestors(d)}
  /\ <<"readdir", d>> \notin faults

\* The regular files such a walk stats with success.
WalkFiles ==
  {p \in FilePaths : /\ kind[p] = "file"
                     /\ ~isSymlink(Last(p))
                     /\ WalkLists(Parent(p))
                     /\ <<"stat", p>> \notin faults}

RecordOf(p) == [path |-> relative(p), modifiedTime |-> toISOString(mtime[p])]

Count(s, r) == Cardinality({i \in 1..Len(s) : s[i] = r})

Rows == IF csv.state = "ok" THEN parse(csv) ELSE <<>>

PriorRows == IF startCsv.state = "ok" THEN parse(startCsv) ELSE <<>>

PriorPaths == {r.path : r \in Range(PriorRows)}

\* Records held by the running calls or returned by the finished scan.
TakenRecords ==
  UNION {Range(stack[i].entries) : i \in 1..Len(stack)} \cup DOMAIN lastNew

IssueCount(type, relativePath) ==
  Cardinality({i \in 1..Len(diagnostics.issues) :
                 diagnostics.issues[i] = [type |-> type, path |-> relativePath]})

NoRecordUnder(d) ==
  \A r \in TakenRecords : \A p \in Universe :
    relative(p) = r.path => ~IsUnder(d, p)

-----------------------------------------------------------------------------
\* C1: after an append-only scan the ledger holds every record of the prior
\* ledger unchanged, as often as before, plus exactly one record for each
\* file the walk stats whose path the prior ledger did not hold.
C1_AppendOnlyLedger ==
  (AfterScan /\ lastOp = "scanAppend") =>
    LET added == {RecordOf(p) : p \in {q \in WalkFiles : relative(q) \notin PriorPaths}}
    IN /\ csv.state = "ok"
       /\ \A r \in Range(Rows) \cup Range(PriorRows) \cup added :
            Count(Rows, r) = Count(PriorRows, r) + (IF r \in added THEN 1 ELSE 0)

\* An append-only scan has run over a prior ledger holding a record whose file
\* is gone or modified since, and has added a record.
C1_Witness ==
  /\ AfterScan /\ lastOp = "scanAppend"
  /\ \E r \in Range(PriorRows) : \E p \in MutableFiles :
       /\ relative(p) = r.path
       /\ kind[p] = "none" \/ mtime[p] # fromISOString(r.modifiedTime)
  /\ \E r \in Range(Rows) : r.path \notin PriorPaths

\* C2: after a Replace scan the ledger holds exactly one record per file the
\* traversal recorded and nothing of the prior ledger: every row names a file
\* that exists, with its current modification time.
C2_ReplaceLedger ==
  (AfterScan /\ lastOp = "scanReplace") =>
    /\ csv.state = "ok"
    /\ BagOf(Rows) = lastNew
    /\ \A r \in Range(Rows) : Count(Rows, r) = 1
    /\ {r.path : r \in Range(Rows)} = {relative(p) : p \in WalkFiles}
    /\ \A r \in Range(Rows) : \E p \in FilePaths :
         /\ relative(p) = r.path
         /\ kind[p] = "file"
         /\ fromISOString(r.modifiedTime) = mtime[p]

\* A Replace scan has run over a prior ledger that held a row of a file no
\* longer in the tree and a row with a time that is not the file's.
C2_Witness ==
  /\ AfterScan /\ lastOp = "scanReplace"
  /\ \E r \in Range(PriorRows) : \E p \in FilePaths :
       relative(p) = r.path /\ kind[p] = "none"
  /\ \E r \in Range(PriorRows) : \E p \in FilePaths :
       relative(p) = r.path /\ kind[p] = "file"
         /\ mtime[p] # fromISOString(r.modifiedTime)
  /\ Len(Rows) >= 2

\* C3: after a restore from a ledger written by a scan, every listed file
\* that exists and whose times fs.utimes set has the modification time its
\* row records, to the millisecond, on linux and on darwin.
C3_RoundTrip ==
  lastOp = "restore" =>
    \A i \in 1..Len(Rows) :
      LET entry == Rows[i]
      IN (accessible(entry.path) /\ utimesApplied(entry.path)) =>
           \A p \in Named(entry.path) :
             Resolve(p) \in FilePaths =>
               mtime[Resolve(p)] = fromISOString(entry.modifiedTime)

\* C4: an entry that is a symbolic link is never handed to scanDirectory and
\* never recorded, whether it points to a file or to an ancestor directory.
C4_SymlinksSkipped ==
  \A p \in Universe :
    kind[p] = "symlink" =>
      /\ p \notin scanLog.called
      /\ \A i \in 1..Len(stack) : stack[i].dirPath # p
      /\ \A r \in TakenRecords : r.path # relative(p)
      /\ \A r \in Range(Rows) : r.path # relative(p)

\* A scan has listed the two directories that hold the symbolic links.
C4_Witness ==
  /\ AfterScan
  /\ {Root, <<nD>>} \subseteq scanLog.listed
  /\ kind[<<nL>>] = "symlink" /\ kind[<<nD, nL>>] = "symlink"

C6_TerminatesWithinDepth ==
  /\ [](Len(stack) <= maxDepth + 2)
  /\ (pc = "scan") ~> (pc = "idle")

\* A scan is in its deepest nesting: the call at depth maxDepth + 1 is active.
C6_Witness ==
  /\ pc = "scan"
  /\ Len(stack) = maxDepth + 2
  /\ Top.depth = maxDepth + 1

\* C7: a failing readdir or stat becomes a diagnostic with the entry's
\* root-relative path; the records of everything else the walk reaches are in
\* the ledger, which is written.
C7_FailuresAreDiagnostics ==
  AfterScan =>
    /\ \A f \in scanLog.failed :
         IssueCount(CASE f[1] = "readdir" -> "DIRECTORY_READ_ERROR"
                      [] f[1] = "stat" -> "FILE_ACCESS_ERROR"
                      [] f[1] = "realpath" -> "PERMISSION_DENIED",
                    relative(f[2])) = 1
    /\ \A f \in faults :
         (f[1] = "stat" /\ kind[f[2]] = "file" /\ WalkLists(Parent(f[2]))
            /\ relative(f[2]) \notin PriorPaths)
         \/ (f[1] = "readdir" /\ WalkLists(Parent(f[2])) /\ Len(f[2]) <= maxDepth
               /\ real[f[2]] \notin {real[a] : a \in ProperAncestors(f[2])})
         => <<f[1], f[2]>> \in scanLog.failed
    /\ csv.state = "ok"
    /\ \A p \in WalkFiles : \E r \in Range(Rows) : r.path = relative(p)
    /\ \A p \in WalkFiles :
         (lastOp = "scanReplace" \/ relative(p) \notin PriorPaths)
           => RecordOf(p) \in DOMAIN lastNew

\* A scan has met a failing readdir and a failing stat and has recorded files
\* of sibling entries and of another branch.
C7_Witness ==
  /\ AfterScan
  /\ <<"readdir", <<nD>>>> \in scanLog.failed
  /\ <<"stat", <<nB>>>> \in scanLog.failed
  /\ {RecordOf(<<nA>>), RecordOf(<<nE, nA>>)} \subseteq DOMAIN lastNew

\* C8: a directory deeper than maxDepth gets exactly one depth diagnostic, is
\* not listed and yields no record; a directory at depth at most maxDepth gets
\* no depth diagnostic and, reached with no other diagnostic, is listed.
C8_DepthLimit ==
  /\ \A d \in scanLog.deep :
       /\ Len(d) > maxDepth
       /\ IssueCount("DEEP_NESTING", relative(d)) = 1
       /\ d \notin scanLog.listed
       /\ NoRecordUnder(d)
  /\ \A d \in scanLog.called :
       Len(d) > maxDepth /\ (AfterScan \/ d # Top.dirPath) => d \in scanLog.deep
  /\ AfterScan =>
       \A d \in DirPaths :
         (/\ Len(d) <= maxDepth
          /\ d = Root \/ Parent(d) \in scanLog.listed
          /\ \A i \in 1..Len(diagnostics.issues) :
               diagnostics.issues[i].path # relative(d))
         => d \in scanLog.listed

\* A scan has listed a directory at depth maxDepth and refused one below it.
C8_Witness ==
  /\ AfterScan
  /\ Chain(maxDepth) \in scanLog.listed
  /\ Chain(maxDepth + 1) \in scanLog.deep

\* C9: the rows of the ledger a scan writes ascend in byte order of path.
C9_ByteOrderedRows ==
  AfterScan =>
    \A i \in 1..(Len(Rows) - 1) : ByteCompare(Rows[i].path, Rows[i + 1].path) < 0

\* C10: a Replace scan that follows a Replace scan with no change of the tree
\* in between writes the ledger file the first one wrote.
C10_ReplaceIdempotent ==
  (AfterScan /\ lastOp = "scanReplace" /\ startOp = "scanReplace") => csv = startCsv

\* Two Replace scans in a row, over a tree with files in several directories
\* and a failing entry.
C10_Witness ==
  /\ AfterScan /\ lastOp = "scanReplace" /\ startOp = "scanReplace"
  /\ Len(Rows) >= 3
  /\ diagnostics.issues # <<>>

\* C11: in a root that starts with no ledger and whose ledger only scans
\* write, whatever files are created, rewritten and removed between the
\* scans, no two rows of the ledger name the same path.
C11_UniquePaths ==
  csv.state = "ok" =>
    \A i, j \in 1..Len(Rows) : i # j => Rows[i].path # Rows[j].path

\* An append-only scan has kept the rows of an earlier scan, one of them of
\* a file since removed or rewritten, and has added a row.
C11_Witness ==
  /\ AfterScan /\ lastOp = "scanAppend"
  /\ Len(PriorRows) >= 2
  /\ Len(Rows) > Len(PriorRows)
  /\ \E r \in Range(PriorRows) : \E p \in MutableFiles :
       /\ relative(p) = r.path
       /\ kind[p] = "none" \/ mtime[p] # fromISOString(r.modifiedTime)

\* Rows of the ledger whose file is not in the folder.
MissingRows ==
  {i \in 1..Len(Rows) :
     \A p \in Named(Rows[i].path) : DirentKind(Resolve(p)) = "none"}

\* How many of the warnings are about the missing file of the given path.
MissingWarnings(pathString) ==
  Cardinality({k \in 1..Len(outcome.warnings) :
                 outcome.warnings[k] = Warning("missing", pathString)})

\* C12: a restore gives one warning for each record whose file is missing
\* and goes on: every record whose file exists is counted as restored and,
\* where fs.utimes works, its time is set (on linux, to the recorded instant
\* of the last record of that path).
C12_MissingFileWarned ==
  (lastOp = "decompress" /\ Len(Rows) > 0) =>
    /\ outcome.exitCode = 0
    /\ \A i \in 1..Len(Rows) :
         MissingWarnings(Rows[i].path) =
           Cardinality({j \in MissingRows : Rows[j].path = Rows[i].path})
    /\ outcome.errorCount = Cardinality(MissingRows)
    /\ outcome.restoredCount = Len(Rows) - Cardinality(MissingRows)
    /\ \A i \in (1..Len(Rows)) \ MissingRows :
         utimesApplied(Rows[i].path) =>
           /\ Rows[i].path \in outcome.applied
           /\ (/\ outcome.platform = "linux"
               /\ \A j \in (i + 1)..Len(Rows) : Rows[j].path # Rows[i].path)
              => \A p \in Named(Rows[i].path) :
                   mtime[Resolve(p)] = fromISOString(Rows[i].modifiedTime)

\* A restore has met a record of a missing file between records of files
\* that exist, and has set the time of a file listed after it.
C12_Witness ==
  /\ lastOp = "decompress"
  /\ \E i, j, k \in 1..Len(Rows) :
       /\ i < j /\ j < k
       /\ j \in MissingRows /\ i \notin MissingRows /\ k \notin MissingRows
       /\ Rows[k].path \in outcome.applied
  /\ outcome.errorCount = 1
  /\ outcome.restoredCount >= 2

\* C13: a restore whose ledger is missing, or cannot be read or parsed, ends
\* with a failure (exit code 1), never with a normal completion.
C13_BadLedgerFatal ==
  (lastOp = "decompress" /\ csv.state \in {"absent", "corrupt"}) =>
    outcome.exitCode = 1

\* Rows of the ledger whose file is in the folder and whose times fs.utimes
\* can set.
SettableRows ==
  {i \in (1..Len(Rows)) \ MissingRows :
     \A p \in Named(Rows[i].path) : <<"utimes", Resolve(p)>> \notin faults}

\* C14: the restored count is the number of records whose modification time
\* was set; a record whose fs.utimes failed is counted as failed.
C14_RestoredCountsApplied ==
  (lastOp = "decompress" /\ Len(Rows) > 0) =>
    /\ outcome.restoredCount = Cardinality(SettableRows)
    /\ outcome.errorCount = Len(Rows) - Cardinality(SettableRows)

\* C15: scanFolder on a path that does not exist or is no directory fails at
\* once with exit code 1: no scanDirectory call is made and metadata.csv is
\* as it was, in either mode; a walk only ever starts on a directory.
C15_InvalidRootRejected ==
  /\ pc = "scan" => kind[stack[1].dirPath] = "dir"
  /\ lastOp = "scanRejected" =>
       /\ pc = "idle"
       /\ stack = <<>>
       /\ scanLog.called = {} /\ scanLog.listed = {}
       /\ csv = startCsv
       /\ outcome.exitCode = 1

\* An append-only scan was refused on a root with a ledger written earlier.
C15_Witness ==
  /\ lastOp = "scanRejected"
  /\ appendOnly
  /\ startOp = "scanReplace"
  /\ Len(Rows) >= 2

\* C16: only the link type of a directory entry makes a scan skip it: every
\* regular file other than metadata.csv that lies in a directory the scan
\* listed, and whose stat works, has a row after a Replace scan, whatever
\* its name.
C16_OnlyLinkTypeSkips ==
  (AfterScan /\ lastOp = "scanReplace") =>
    \A p \in FilePaths :
      (/\ kind[p] = "file"
       /\ Parent(p) \in scanLog.listed
       /\ <<"stat", p>> \notin faults
       /\ Last(p)[1] # ".")
      => \E i \in 1..Len(Rows) : Rows[i].path = relative(p)

\* C17: a regular file whose name begins with a dot, lying in a directory
\* the scan listed and with a working stat, has a row after a Replace scan.
C17_HiddenEntriesScanned ==
  (AfterScan /\ lastOp = "scanReplace") =>
    \A p \in FilePaths :
      (/\ kind[p] = "file"
       /\ Parent(p) \in scanLog.listed
       /\ <<"stat", p>> \notin faults
       /\ Last(p)[1] = ".")
      => \E i \in 1..Len(Rows) : Rows[i].path = relative(p)

\* C18: no scan records the root's metadata.csv: no running call holds a
\* record of it, no finished scan returned one, and the ledger, which only
\* scans write, has no row of it, in either mode, whether or not the file
\* was there when the scan began.
C18_LedgerNotListed ==
  /\ \A r \in TakenRecords : r.path # relative(LedgerPath)
  /\ \A i \in 1..Len(Rows) : Rows[i].path # relative(LedgerPath)

\* An append-only scan has listed a root that held the metadata.csv of an
\* earlier scan.
C18_Witness ==
  /\ AfterScan /\ lastOp = "scanAppend"
  /\ startCsv.state = "ok"
  /\ Root \in scanLog.listed
  /\ Len(Rows) >= 2

\* C19: a directory gets a cycle diagnostic only if its real path is that of
\* one of its own ancestors: a called directory within the depth limit whose
\* realpath and readdir work and whose real path is none of its ancestors'
\* is listed and has no cycle diagnostic, whatever other directories of the
\* tree resolve to the same real path.
C19_CycleOnlyWithAncestor ==
  /\ \A i \in 1..Len(diagnostics.issues) :
       diagnostics.issues[i].type = "CIRCULAR_SYMLINK" =>
         \E d \in scanLog.called :
           /\ relative(d) = diagnostics.issues[i].path
           /\ real[d] \in {real[a] : a \in ProperAncestors(d)}
  /\ AfterScan =>
       \A d \in scanLog.called :
         (/\ Len(d) <= maxDepth
          /\ <<"realpath", d>> \notin faults
          /\ <<"readdir", d>> \notin faults
          /\ real[d] \notin {real[a] : a \in ProperAncestors(d)})
         => d \in scanLog.listed /\ d \notin scanLog.cycle

\* A scan has listed two sibling directories that resolve to the same real
\* path, and has recorded a file in each branch.
C19_Witness ==
  /\ AfterScan
  /\ real[<<nD>>] = real[<<nE>>]
  /\ {<<nD>>, <<nE>>} \subseteq scanLog.listed
  /\ diagnostics.issues = <<>> \/ \A i \in 1..Len(diagnostics.issues) :
                                     diagnostics.issues[i].type # "CIRCULAR_SYMLINK"
  /\ \E r \in DOMAIN lastNew : r.path = relative(<<nE, nA>>)

\* C20: a restore from a ledger with no record ends without failure, leaves
\* every file with the modification time the extraction gave it, and gives
\* the one warning that there was nothing to restore.
C20_EmptyLedgerNoOp ==
  (lastOp = "decompress" /\ csv.state = "ok" /\ Len(csv.rows) = 0) =>
    /\ outcome.exitCode = 0
    /\ outcome.restoredCount = 0
    /\ outcome.errorCount = 0
    /\ outcome.applied = {}
    /\ outcome.warnings = << Warning("empty", <<>>) >>
    /\ \E now \in Times : \A p \in FilePaths : mtime[p] = now

\* A restore has run on a ledger with a header and no record, in a folder
\* that holds files.
C20_Witness ==
  /\ lastOp = "decompress"
  /\ csv = EmptyCsv
  /\ kind[<<nA>>] = "file"
  /\ outcome.platform = "darwin"

\* The file a path string of the ledger stands for, links followed.
FileOf(pathString) == {Resolve(p) : p \in Named(pathString)}

\* Rows of the ledger after which no row stands for the same file.
LastRows ==
  {i \in 1..Len(Rows) :
     \A j \in (i + 1)..Len(Rows) :
       FileOf(Rows[j].path) \cap FileOf(Rows[i].path) = {}}

\* Rows of the ledger before which a row stands for the same file.
RepeatedRows ==
  {i \in 1..Len(Rows) :
     \E j \in 1..(i - 1) :
       FileOf(Rows[j].path) \cap FileOf(Rows[i].path) # {}}

\* The modification time a record leaves on its file: the recorded instant,
\* or what touch -t makes of it where the touch commands run and work.
TimeLeftBy(i) ==
  IF outcome.touch = "ok"
  THEN touchInstant(touchFormat(fromISOString(Rows[i].modifiedTime)))
  ELSE fromISOString(Rows[i].modifiedTime)

\* C21: the records of a ledger that names one path several times are
\* applied in the order of the file, so after the restore the file has the
\* modification time of the last record of its path.
C21_LastRecordWins ==
  (lastOp = "decompress" /\ Len(Rows) > 0) =>
    \A i \in (LastRows \cap RepeatedRows) \cap SettableRows :
      \A f \in FileOf(Rows[i].path) \cap DOMAIN mtime :
        mtime[f] = TimeLeftBy(i)

\* A restore has run on a ledger with two records of one file that give
\* different instants, and the file has the instant of the second.
C21_Witness ==
  /\ lastOp = "decompress"
  /\ \E i \in (LastRows \cap RepeatedRows) \cap SettableRows :
       /\ \E j \in 1..(i - 1) :
            /\ Rows[j].path = Rows[i].path
            /\ TimeLeftBy(j) # TimeLeftBy(i)
       /\ \E f \in FileOf(Rows[i].path) \cap DOMAIN mtime :
            mtime[f] = TimeLeftBy(i)

\* C27: where the touch command that sets the birth time fails, the file
\* keeps the modification time fs.utimes gave it (the recorded instant, to
\* the millisecond), the record is counted as restored, and the failure
\* gives no warning and no error: warnings and errors are those of missing
\* files and failed fs.utimes calls only.
C27_TouchFailureSilent ==
  (lastOp = "decompress" /\ Len(Rows) > 0 /\ outcome.touch = "failed") =>
    /\ \A i \in LastRows \cap SettableRows :
         \A f \in FileOf(Rows[i].path) \cap DOMAIN mtime :
           mtime[f] = fromISOString(Rows[i].modifiedTime)
    /\ outcome.restoredCount = Len(Rows) - Cardinality(MissingRows)
    /\ outcome.errorCount = Cardinality(MissingRows)
    /\ Len(outcome.warnings) = Len(Rows) - Cardinality(SettableRows)

\* A restore whose touch commands failed has left a file at a recorded
\* instant with milliseconds, which no touch -t could have set, has counted
\* every record of an existing file and has warned of nothing.
C27_Witness ==
  /\ lastOp = "decompress"
  /\ outcome.touch = "failed"
  /\ \E i \in LastRows \cap SettableRows :
       /\ fromISOString(Rows[i].modifiedTime) % 1000 # 0
       /\ \E f \in FileOf(Rows[i].path) \cap DOMAIN mtime :
            mtime[f] = fromISOString(Rows[i].modifiedTime)
  /\ outcome.restoredCount = Len(Rows)
  /\ outcome.warnings = <<>>

\* C28: a restore changes the times of files inside the extracted folder
\* only: whatever the ledger holds, the file beside the folder keeps the
\* modification time it had.
C28_RestoreStaysInside ==
  lastOp = "decompress" => \A p \in OutsideFiles : mtime[p] = 61123

\* C29: after a restore over a ledger that holds records, the restored
\* count and the error count add up to the number of records.
C29_CountsAddUp ==
  (lastOp = "decompress" /\ Len(Rows) > 0) =>
    outcome.restoredCount + outcome.errorCount = Len(Rows)

\* A restore has counted records of both kinds.
C29_Witness ==
  /\ lastOp = "decompress"
  /\ Len(Rows) > 2
  /\ outcome.restoredCount > 1
  /\ outcome.errorCount > 0

\* C22: an append-only scan that finds no prior ledger, or one that cannot
\* be parsed, takes the prior ledger as empty and completes: the ledger it
\* writes holds exactly the records of this traversal, one per file walked,
\* each with the file's modification time.
C22_BadPriorLedgerIsEmpty ==
  (AfterScan /\ lastOp = "scanAppend" /\ startCsv.state \in {"absent", "corrupt"}) =>
    /\ csv.state = "ok"
    /\ outcome.exitCode = 0
    /\ BagOf(Rows) = lastNew
    /\ \A r \in Range(Rows) : Count(Rows, r) = 1
    /\ Range(Rows) = {RecordOf(p) : p \in WalkFiles}

\* An append-only scan has run over a ledger that could not be parsed and
\* has written records.
C22_Witness ==
  /\ AfterScan /\ lastOp = "scanAppend"
  /\ startCsv = CorruptCsv
  /\ Len(Rows) > 1

\* C26 as amended: the lineage of every running scanDirectory call holds at
\* most maxDepth + 1 paths, the call at depth maxDepth holding its own real
\* path and those of its maxDepth ancestors.
C26_LineageBound ==
  \A i \in 1..Len(stack) :
    Cardinality(stack[i].visitedPaths) <= maxDepth + 1

\* A call at depth maxDepth has added its real path to the lineage.
C26_Witness ==
  /\ pc = "scan"
  /\ Top.depth = maxDepth
  /\ Cardinality(Top.visitedPaths) = maxDepth + 1

\* C26: at every point of a scan the lineage of the active scanDirectory
\* call holds at most maxDepth paths.
C26_LineageWithinMaxDepth ==
  pc = "scan" => Cardinality(Top.visitedPaths) <= maxDepth

\* C30: throughout a scan skippedPaths and issues have the same length, and
\* each issue is paired with the skipped path it is about.
C30_IssuesPaired ==
  /\ Len(diagnostics.skippedPaths) = Len(diagnostics.issues)
  /\ \A i \in 1..Len(diagnostics.issues) :
       diagnostics.skippedPaths[i] = diagnostics.issues[i].path

\* A scan has ended with issues of two kinds.
C30_Witness ==
  /\ AfterScan
  /\ \E i, j \in 1..Len(diagnostics.issues) :
       diagnostics.issues[i].type # diagnostics.issues[j].type

-----------------------------------------------------------------------------
(* removeRelative: the rm command on the stored base directory *)

\* The base directory ~/.paqt_info holds: /w, the folder of the tree, as its
\* names from the filesystem root.
baseDir == << nW >>

\* ~/.paqt_info
InfoFile == << <<".", "p", "a", "q", "t", "_", "i", "n", "f", "o">> >>

\* The string of an absolute path given by its names.
absoluteString(names) == <<"/">> \o relative(names)

\* resolve(join(baseDir, relativePath)): the names in rest are taken one by
\* one, each .. taking the last name away (none at the filesystem root).
RECURSIVE resolve(_, _)
resolve(done, rest) ==
  IF rest = <<>> THEN done
  ELSE IF rest[1] = nUp
       THEN resolve(SubSeq(done, 1, Len(done) - 1), Tail(rest))
       ELSE resolve(Append(done, rest[1]), Tail(rest))

\* String.prototype.startsWith
startsWith(str, prefix) ==
  Len(str) >= Len(prefix) /\ SubSeq(str, 1, Len(prefix)) = prefix

\* The entry of the tree, or beside it, at an absolute path.
EntryAt(fullPath) ==
  {p \in Tracked \cup {LedgerPath} : resolve(<<>>, baseDir \o p) = fullPath}

\* existsSync(fullPath) in the tree k: links are followed.
existsSync(k, fullPath) ==
  \E p \in EntryAt(fullPath) :
    IF Resolve(p) = LedgerPath THEN TRUE ELSE k[Resolve(p)] # "none"

\* rmSync(fullPath, {recursive, force}) on a directory, unlinkSync(fullPath)
\* on anything else (part_003 105-115): a directory goes with all it holds,
\* a symbolic link goes alone.
removed(k, p) ==
  [q \in DOMAIN k |->
     IF q = p \/ (p \notin SymlinkPaths /\ k[p] = "dir" /\ IsUnder(p, q))
     THEN "none" ELSE k[q]]

\* The loop of removeRelative (part_003 84-126) over paths[i..], on the tree
\* and the results so far.
RECURSIVE removeLoop(_, _, _)
removeLoop(paths, i, acc) ==
  IF i > Len(paths) THEN acc
  ELSE LET relativePath == paths[i]
           fullPath == resolve(<<>>, baseDir \o relativePath)
           p == CHOOSE q \in EntryAt(fullPath) : TRUE
           fail(error) ==
             [acc EXCEPT !.results.failed =
                Append(@, [path |-> relativePath, error |-> error])]
       IN IF ~startsWith(absoluteString(fullPath), absoluteString(baseDir))
          THEN removeLoop(paths, i + 1, fail("escapes"))
          ELSE IF ~existsSync(acc.kind, fullPath)
          THEN removeLoop(paths, i + 1, fail("missing"))
          ELSE IF <<"unlink", p>> \in faults
          THEN removeLoop(paths, i + 1, fail("error"))
          ELSE removeLoop(paths, i + 1,
                 [acc EXCEPT !.kind = removed(@, p),
                             !.results.success = Append(@, relativePath)])

\* What the command may be given: a file, a file that cannot be unlinked, a
\* directory, a link to a directory, and two paths that leave the folder.
RmArguments ==
  { <<nA>>, <<nB>>, <<nD>>, <<nL>>, <<nUp, nS>>, <<nUp, nWs>> }

\* removeRelative (part_003 65-148)
RemoveRelative(paths) ==
  /\ pc = "idle"
  /\ LET start == [kind |-> kind, results |-> NoResults]
         res == IF paths = <<>> \/ <<"readFile", InfoFile>> \in faults
                THEN start
                ELSE removeLoop(paths, 1, start)
     IN /\ kind' = res.kind
        /\ outcome' = [NoOutcome EXCEPT !.results = res.results]
  /\ lastOp' = "rm"
  /\ UNCHANGED << mtime, faults, real, csv, envSteps, pc, scanLocals, stack,
                  diagnostics, scanLog, histVars, lastNew >>

RmInit ==
  /\ kind \in { InitKind, [InitKind EXCEPT ![<<nD, nA>>] = "file"],
                 [InitKind EXCEPT ![<<nA>>] = "none"] }
  /\ mtime = [p \in TimedFiles |-> 61123]
  /\ faults \in { {}, {<<"unlink", <<nB>>>>}, {<<"readFile", InfoFile>>} }
  /\ real = InitReal
  /\ csv = AbsentCsv
  /\ envSteps = 0
  /\ pc = "idle"
  /\ appendOnly = FALSE
  /\ allMetadata = <<>>
  /\ existingFiles = {}
  /\ stack = <<>>
  /\ diagnostics = EmptyDiagnostics
  /\ scanLog = EmptyLog
  /\ lastOp = "none"
  /\ startCsv = AbsentCsv
  /\ startOp = "none"
  /\ lastNew = <<>>
  /\ outcome = NoOutcome

RmNext ==
  \E paths \in {<<>>} \cup [1..1 -> RmArguments] \cup [1..2 -> RmArguments] :
    RemoveRelative(paths)

RmSpec == RmInit /\ [][RmNext]_vars

\* C23: rm removes nothing outside the stored base directory: a run leaves
\* every file beside the folder in place, and every argument it reports as
\* removed resolves to the base directory or to a path below it.
C23_RmStaysUnderBase ==
  [][lastOp' = "rm" =>
       /\ \A p \in OutsideFiles : kind'[p] = kind[p]
       /\ \A i \in 1..Len(outcome'.results.success) :
            LET fullPath == resolve(<<>>, baseDir \o outcome'.results.success[i])
            IN SubSeq(fullPath, 1, Len(baseDir)) = baseDir]_vars

-----------------------------------------------------------------------------
(* cleanDirectories: the clean command *)

\* patterns.ts 15-58
SAFE_PATTERNS ==
  << [pattern |-> <<"n", "o", "d", "e", "_", "m", "o", "d", "u", "l", "e", "s">>, category |-> "safe"],
     [pattern |-> <<".", "v", "e", "n", "v">>, category |-> "safe"],
     [pattern |-> <<"c", "a", "c", "h", "e">>, category |-> "safe"],
     [pattern |-> <<"b", "u", "i", "l", "d">>, category |-> "safe"],
     [pattern |-> <<"d", "i", "s", "t">>, category |-> "safe"],
     [pattern |-> <<".", "n", "e", "x", "t">>, category |-> "safe"],
     [pattern |-> <<".", "n", "u", "x", "t">>, category |-> "safe"] >>

\* patterns.ts 63-88
CAREFUL_PATTERNS ==
  << [pattern |-> <<".", "v", "s", "c", "o", "d", "e">>, category |-> "careful"],
     [pattern |-> <<"t", "a", "r", "g", "e", "t">>, category |-> "careful"],
     [pattern |-> <<"t", "m", "p">>, category |-> "careful"],
     [pattern |-> <<".", "c", "a", "c", "h", "e">>, category |-> "careful"] >>

\* patterns.ts 93-106
DANGEROUS_PATTERNS ==
  << [pattern |-> <<".", "g", "i", "t">>, category |-> "dangerous"],
     [pattern |-> <<".", "c", "o", "n", "f", "i", "g">>, category |-> "dangerous"] >>

\* patterns.ts 111-115
ALL_PATTERNS == SAFE_PATTERNS \o CAREFUL_PATTERNS \o DANGEROUS_PATTERNS

\* The patterns cleanDirectories uses (cleaner.ts 199-215): those the
\* patterns option names among ALL_PATTERNS, or the safe ones with the
\* categories the flags add.
patternsToUse(options) ==
  IF options.patterns # {}
  THEN LET given == CHOOSE l \in options.patterns : TRUE
           known == SelectSeq(given,
                      LAMBDA p : \E i \in 1..Len(ALL_PATTERNS) :
                                   ALL_PATTERNS[i].pattern = p)
       IN [j \in 1..Len(known) |->
             ALL_PATTERNS[CHOOSE i \in 1..Len(ALL_PATTERNS) :
                            ALL_PATTERNS[i].pattern = known[j]]]
  ELSE SAFE_PATTERNS
       \o (IF options.includeCareful THEN CAREFUL_PATTERNS ELSE <<>>)
       \o (IF options.includeDangerous THEN DANGEROUS_PATTERNS ELSE <<>>)

\* find -name "*pattern*": the pattern occurs somewhere in the name.
nameMatches(name, pattern) ==
  \E i \in 0..(Len(name) - Len(pattern)) :
    SubSeq(name, i + 1, i + Len(pattern)) = pattern

\* getDirectorySize (cleaner.ts 25-83): what du -sk reports, in bytes.
getDirectorySize(path) == 1024 * Len(Last(path))

\* countFiles (cleaner.ts 88-110): what find -type f | wc -l reports.
countFiles(path) == Len(path)

\* findMatchingDirectories (cleaner.ts 115-149): for each pattern, in turn,
\* the directories find lists at or below basePath; a find that fails gives
\* none.  One directory is listed once for each pattern it matches.  The
\* order (find's, then by size) decides the order of the deletions and of
\* the log only, so the list is kept as a set.
findMatchingDirectories(basePath, patterns) ==
  IF <<"find", basePath>> \in faults THEN {}
  ELSE { [path |-> q, pattern |-> i,
          size |-> getDirectorySize(q), fileCount |-> countFiles(q)] :
           <<q, i>> \in
             { x \in Tracked \X (1..Len(patterns)) :
                 /\ kind[x[1]] = "dir"
                 /\ x[1] = basePath \/ IsUnder(basePath, x[1])
                 /\ nameMatches(IF x[1] = Root THEN nW ELSE Last(x[1]),
                                patterns[x[2]].pattern) } }

\* dirs.reduce((sum, d) => sum + d[field], 0)
RECURSIVE total(_, _)
total(dirs, field) ==
  IF dirs = {} THEN 0
  ELSE LET d == CHOOSE x \in dirs : TRUE
       IN d[field] + total(dirs \ {d}, field)

\* The dry run that goes on to delete.
dryRunStopsNever(options) == FALSE

\* if (options.dryRun) ... return stats (cleaner.ts 295-299)
dryRunStops(options) == options.dryRun

\* What the command may be given.
CleanOptions ==
  [dryRun : BOOLEAN, includeCareful : BOOLEAN, includeDangerous : BOOLEAN,
   patterns : { {}, { << <<".", "g", "i", "t">> >> },
                { << <<"c", "a", "c", "h", "e">>, <<"x">> >> } }]

\* cleanDirectories (cleaner.ts 174-342): a folderPath that is no directory
\* ends the process with exit code 1; a dry run, no pattern or no match
\* returns the statistics; otherwise fs.rm with recursive and force runs on
\* every listed directory, and each that does not throw is counted.
CleanDirectories(folderPath, options) ==
  /\ pc = "idle"
  /\ LET patterns == patternsToUse(options)
         matchingDirs == findMatchingDirectories(folderPath, patterns)
         deleted == {d \in matchingDirs : <<"rm", d.path>> \notin faults}
         report(stats) == [NoOutcome EXCEPT !.stats = stats, !.options = options]
     IN IF ~statIsDirectory(folderPath)
        THEN /\ outcome' = [report(NoStats) EXCEPT !.exitCode = 1]
             /\ kind' = kind
        ELSE IF Len(patterns) = 0
        THEN /\ outcome' = report(NoStats)
             /\ kind' = kind
        ELSE IF matchingDirs = {} \/ dryRunStops(options)
        THEN /\ outcome' = report([NoStats EXCEPT
                                     !.scannedDirs = Cardinality(matchingDirs)])
             /\ kind' = kind
        ELSE /\ outcome' = report(
                  [scannedDirs |-> Cardinality(matchingDirs),
                   deletedDirs |-> Cardinality(deleted),
                   deletedFiles |-> total(deleted, "fileCount"),
                   freedSpace |-> total(deleted, "size"),
                   skippedDirs |-> Cardinality(matchingDirs \ deleted)])
             /\ kind' = [q \in DOMAIN kind |->
                           IF \E d \in deleted : q = d.path \/ IsUnder(d.path, q)
                           THEN "none" ELSE kind[q]]
  /\ lastOp' = "clean"
  /\ UNCHANGED << mtime, faults, real, csv, envSteps, pc, scanLocals, stack,
                  diagnostics, scanLog, histVars, lastNew >>

CleanInit ==
  /\ kind \in { [p \in Tracked |-> IF p \in CleanDirs THEN "dir" ELSE InitKind[p]],
                 [p \in Tracked |-> IF p \in CleanDirs \ {<<nE, <<"t", "m", "p">>>>}
                                    THEN "dir" ELSE InitKind[p]] }
  /\ mtime = [p \in TimedFiles |-> 61123]
  /\ faults \in { {}, {<<"rm", << <<"c", "a", "c", "h", "e">> >> >>},
                   {<<"find", Root>>} }
  /\ real = InitReal
  /\ csv = AbsentCsv
  /\ envSteps = 0
  /\ pc = "idle"
  /\ appendOnly = FALSE
  /\ allMetadata = <<>>
  /\ existingFiles = {}
  /\ stack = <<>>
  /\ diagnostics = EmptyDiagnostics
  /\ scanLog = EmptyLog
  /\ lastOp = "none"
  /\ startCsv = AbsentCsv
  /\ startOp = "none"
  /\ lastNew = <<>>
  /\ outcome = NoOutcome

CleanNext ==
  \E folderPath \in {Root, <<nA>>}, options \in CleanOptions :
    CleanDirectories(folderPath, options)

CleanSpec == CleanInit /\ [][CleanNext]_vars

\* C24: a dry run of cleanDirectories, whatever its other options, leaves
\* every file and directory in place and returns statistics with no deleted
\* directory, no deleted file and no freed space.
C24_DryRunDeletesNothing ==
  [][(lastOp' = "clean" /\ outcome'.options.dryRun) =>
       /\ kind' = kind
       /\ csv' = csv
       /\ outcome'.stats.deletedDirs = 0
       /\ outcome'.stats.deletedFiles = 0
       /\ outcome'.stats.freedSpace = 0]_vars

\* A dry run with the careful and dangerous categories included has listed
\* directories of the three categories, which are all still there.
C24_Witness ==
  /\ lastOp = "clean"
  /\ outcome.options.dryRun
  /\ outcome.options.includeCareful /\ outcome.options.includeDangerous
  /\ outcome.stats.scannedDirs > 3
  /\ \A p \in CleanDirs : kind[p] = "dir"

\* The patterns that name a directory: those equal to its name.
NamingPatterns(p) ==
  {i \in 1..Len(ALL_PATTERNS) : ALL_PATTERNS[i].pattern = Last(p)}

\* C25: a run of cleanDirectories without the patterns option deletes a
\* directory only if the category of the pattern naming it is enabled: one
\* named by a careful pattern only with includeCareful, one named by a
\* dangerous pattern only with includeDangerous.
C25_CategoryGatesDeletion ==
  [][(lastOp' = "clean" /\ outcome'.options.patterns = {}) =>
       \A p \in CleanDirs : \A i \in NamingPatterns(p) :
         (kind[p] = "dir" /\ kind'[p] = "none") =>
           /\ ALL_PATTERNS[i].category = "careful"
                => outcome'.options.includeCareful
           /\ ALL_PATTERNS[i].category = "dangerous"
                => outcome'.options.includeDangerous]_vars

====
